---- MODULE Spec2Model ----
(***************************************************************************)
(* State-machine model of experiments/probe_training.py (dataset balancer, *)
(* train/test reconciliation, probe data preparation, probe training) and  *)
(* experiments/eval_saes.py (SAE evaluation driver).                       *)
(*                                                                         *)
(* A text of the corpus is the triple <<profession, gender, i>>: the i-th  *)
(* row of its (profession, gender) cell in the split's data frame.  A data *)
(* frame is given by the number of rows in each cell.  An activation row   *)
(* is the pair <<class key, i>>: the pooled vector of the i-th text of the *)
(* class.  A raised exception is recorded by the name of its Python class. *)
(***************************************************************************)
EXTENDS Integers, Sequences, FiniteSets, TLC

(***************************************************************************)
(* The state.                                                              *)
(***************************************************************************)
\* get_train_test_data and train_probes
VARIABLES
    entry,        \* the function that was called: "get_train_test_data" or "train_probes"
    args,         \* its arguments train_set_size, test_set_size, include_paired_classes
    dpc,          \* the position of the call
    call,         \* the last call of get_balanced_dataset: arguments and outcome
    train_bios,   \* the train mapping get_train_test_data holds
    test_bios,    \* the test mapping get_train_test_data holds
    stages,       \* the stages of train_probes carried out so far, in order
    raised        \* the exception that ended the call, or "none"

dataVars == <<entry, args, dpc, call, train_bios, test_bios, stages, raised>>

\* prepare_probe_data
VARIABLES
    ppc,          \* "called" until prepare_probe_data has ended, then "done"
    pargs,        \* all_activations, class_idx, batch_size, single_class
    pout          \* how the call ended and what it returned

prepVars == <<ppc, pargs, pout>>

\* train_probe
VARIABLES
    tpc,            \* the position of the call of train_probe
    targs,          \* its arguments
    epoch,          \* the number of epochs completed
    batch_idx,      \* the number of batch pairs trained on in the current pass
    probe,          \* the probe's parameters, named by the number of optimizer steps taken
    loss_bound,     \* whether the local variable loss has been assigned
    train_accuracy, \* the local variable train_accuracy, or Unbound
    test_accuracy,  \* the local variable test_accuracy, or Unbound
    tret,           \* the value returned, or NotReturned
    terror          \* the exception that ended the call, or "none"

trainVars == <<tpc, targs, epoch, batch_idx, probe, loss_bound, train_accuracy,
               test_accuracy, tret, terror>>

\* eval_saes
VARIABLES
    epc,            \* the position of the call of eval_saes
    eargs,          \* its arguments
    input_strings,  \* the local list input_strings
    ae_index,       \* the number of artifact paths the loop has finished with
    loaded,         \* the artifact paths load_dictionary was called with, in order
    evaluated,      \* the artifact paths evaluate was called for, in order
    eval_results,   \* the local variable eval_results, or Unbound
    files,          \* the result files on disk: artifact path -> contents
    eret,           \* the value returned, or NotReturned
    eerror          \* the failure that ended the call, or "none"

evalVars == <<epc, eargs, input_strings, ae_index, loaded, evaluated, eval_results,
              files, eret, eerror>>

vars == <<dataVars, prepVars, trainVars, evalVars>>

(***************************************************************************)
(* Bounds of the model.                                                    *)
(***************************************************************************)
\* largest number of rows in one (profession, gender) cell of a split
MaxCell == 2
\* largest train_set_size / test_set_size passed to get_train_test_data
MaxSetSize == 8

(***************************************************************************)
(* Program constants.                                                      *)
(***************************************************************************)
SEED == 42
MALE_IDX == 0
FEMALE_IDX == 1
nurse_idx == 13
professor_idx == 21

\* the profession ids that occur in the modelled corpora
Professions == {nurse_idx, professor_idx}
Genders == {MALE_IDX, FEMALE_IDX}

\* the reserved keys add_gender_classes writes
PairedGroupKeys == {-2, -3, -4, -5}

NoData == [k \in {} |-> <<>>]

\* no call of get_balanced_dataset made yet
NoCall == [made |-> FALSE]

Min(S) == CHOOSE x \in S : \A y \in S : x <= y

RECURSIVE SeqOfSet(_)
SeqOfSet(S) ==
    IF S = {} THEN <<>>
    ELSE LET x == Min(S) IN <<x>> \o SeqOfSet(S \ {x})

RECURSIVE Concat(_)
Concat(ss) == IF ss = <<>> THEN <<>> ELSE Head(ss) \o Concat(Tail(ss))

Take(s, n) == SubSeq(s, 1, IF n < Len(s) THEN n ELSE Len(s))

(***************************************************************************)
(* Data frames.                                                            *)
(***************************************************************************)
\* every data frame of a split: the number of rows of each cell
DataFrames == [Professions \X Genders -> 0..MaxCell]

\* df[(df["profession"] == p) & (df["gender"] == g)]["hard_text"].tolist()
Cell(df, p, g) == [i \in 1..df[<<p, g>>] |-> <<p, g, i>>]

\* df["profession"].unique()
Unique(df) == {p \in Professions : \E g \in Genders : df[<<p, g>>] > 0}

\* prof_df["gender"].value_counts().min(): value_counts lists only the gender
\* values that occur in prof_df
ValueCountsMin(df, p) == Min({df[<<p, g>>] : g \in {h \in Genders : df[<<p, h>>] > 0}})

\* group.sample(n, random_state=seed): n distinct rows of the group, fixed by
\* the seed and the group (the generator's choice is modelled by a rotation)
Sample(group, n, seed) ==
    [i \in 1..n |-> group[((seed + i - 1) % Len(group)) + 1]]

\* rng.shuffle(list): a permutation fixed by the seed (modelled by a rotation)
Shuffle(list, seed) ==
    IF list = <<>> THEN <<>>
    ELSE [i \in 1..Len(list) |-> list[((seed + i - 1) % Len(list)) + 1]]

\* the rows of one profession in balanced_df: the samples of the gender groups
\* that prof_df.groupby("gender") yields, in gender order
BalancedProfDf(df, p, n, seed) ==
    Concat([j \in 1..2 |->
              IF df[<<p, j - 1>>] > 0 THEN Sample(Cell(df, p, j - 1), n, seed)
              ELSE <<>>])

\* the professions the loop appends to balanced_df_list
KeptProfessions(df, min_samples_per_group) ==
    {p \in Unique(df) : ~(ValueCountsMin(df, p) < min_samples_per_group)}

\* balanced_df.groupby("profession")["hard_text"].apply(list): a profession
\* without a row in balanced_df forms no group
GroupedTexts(df, min_samples_per_group, seed) ==
    LET kept == KeptProfessions(df, min_samples_per_group)
        rows(p) == BalancedProfDf(df, p, min_samples_per_group, seed)
    IN  [p \in {q \in kept : rows(q) # <<>>} |-> rows(p)]

add_gender_classes(balanced_data, df, cutoff, random_seed) ==
    LET male_nurse == Cell(df, nurse_idx, MALE_IDX)
        female_nurse == Cell(df, nurse_idx, FEMALE_IDX)
        male_professor == Cell(df, professor_idx, MALE_IDX)
        female_professor == Cell(df, professor_idx, FEMALE_IDX)
        min_count == Min({Len(male_nurse), Len(female_nurse),
                          Len(male_professor), Len(female_professor), cutoff})
        male_combined == Take(male_professor, min_count) \o Take(male_nurse, min_count)
        female_combined == Take(female_professor, min_count) \o Take(female_nurse, min_count)
        professors_combined == Take(male_professor, min_count) \o Take(female_professor, min_count)
        nurses_combined == Take(male_nurse, min_count) \o Take(female_nurse, min_count)
    IN  [k \in DOMAIN balanced_data \cup PairedGroupKeys |->
            CASE k = -2 -> Shuffle(male_combined, random_seed)
              [] k = -3 -> Shuffle(female_combined, random_seed)
              [] k = -4 -> Shuffle(professors_combined, random_seed)
              [] k = -5 -> Shuffle(nurses_combined, random_seed)
              [] OTHER -> balanced_data[k]]

\* the assertion run before add_gender_classes, over the profession groups only
GroupSizesAssertedBeforePairing(balanced_data, min_samples_per_group) ==
    \A key \in DOMAIN balanced_data \cap Nat :
        Len(balanced_data[key]) = min_samples_per_group * 2

\* the assertion of the final loop of get_balanced_dataset
GroupSizesAsserted(balanced_data, min_samples_per_group) ==
    \A key \in DOMAIN balanced_data :
        Len(balanced_data[key]) = min_samples_per_group * 2

\* get_balanced_dataset on the data frame of the chosen split: how the call
\* ends and the mapping it had built by then
get_balanced_dataset(df, min_samples_per_group, include_paired_classes, random_seed) ==
    IF KeptProfessions(df, min_samples_per_group) = {}
    THEN \* pd.concat(balanced_df_list) of an empty list
         [status |-> "ValueError", balanced_data |-> NoData]
    ELSE LET grouped == GroupedTexts(df, min_samples_per_group, random_seed)
             balanced_data ==
                 IF include_paired_classes
                 THEN add_gender_classes(grouped, df, min_samples_per_group, random_seed)
                 ELSE grouped
         IN  [status |-> IF GroupSizesAsserted(balanced_data, min_samples_per_group)
                         THEN "returned" ELSE "AssertionError",
              balanced_data |-> balanced_data]

\* ensure_shared_keys without its second del loop
ensure_shared_keys_test_only(train_data, test_data) ==
    LET test_only_keys == DOMAIN test_data \ DOMAIN train_data
    IN  [train |-> train_data,
         test |-> [k \in DOMAIN test_data \ test_only_keys |-> test_data[k]]]

\* ensure_shared_keys: both mappings after the two del loops
ensure_shared_keys(train_data, test_data) ==
    LET test_only_keys == DOMAIN test_data \ DOMAIN train_data
        train_only_keys == DOMAIN train_data \ DOMAIN test_data
    IN  [train |-> [k \in DOMAIN train_data \ train_only_keys |-> train_data[k]],
         test |-> [k \in DOMAIN test_data \ test_only_keys |-> test_data[k]]]

(***************************************************************************)
(* prepare_probe_data.                                                     *)
(***************************************************************************)
\* largest number of activation rows of one class
MaxActs == 2
\* largest batch_size
MaxBatch == 3

\* utils.PAIRED_CLASS_KEYS: the partner registered for a paired class
PAIRED_CLASS_KEYS == (-2 :> -3) @@ (-4 :> -5)
\* utils.POSITIVE_CLASS_LABEL and utils.NEGATIVE_CLASS_LABEL
POSITIVE_CLASS_LABEL == "positive"
NEGATIVE_CLASS_LABEL == "negative"

\* the class keys the activation mappings are drawn over, and the class ids
\* prepare_probe_data is called with
ActivationKeys == {nurse_idx, -2, -3}
ClassIds == ActivationKeys \cup {-6}

\* the activation tensor of a class of n texts: one row per text
Acts(key, n) == [i \in 1..n |-> <<key, i>>]

\* every mapping all_activations: some of the keys, each with 0..MaxActs rows
ActivationMappings ==
    UNION {[K -> 0..MaxActs] : K \in SUBSET ActivationKeys}

AllActivations(sizes) == [k \in DOMAIN sizes |-> Acts(k, sizes[k])]

\* t.randperm(n): every ordering of the n indices
RECURSIVE RandPerms(_)
RandPerms(S) ==
    IF S = {} THEN {<<>>}
    ELSE UNION {{<<x>> \o q : q \in RandPerms(S \ {x})} : x \in S}

\* t.randperm(n)[:k], up to the order of the indices chosen: the shuffle
\* that follows the selection draws every ordering of the combined rows, so
\* the ascending choice stands for every ordering of the same indices
SelectedIndices(n, k) ==
    {SeqOfSet(I) : I \in {J \in SUBSET (1..n) : Cardinality(J) = IF k < n THEN k ELSE n}}

\* tensor[indices]
Gather(tensor, indices) == [i \in 1..Len(indices) |-> tensor[indices[i]]]

\* [x[i * batch_size : (i + 1) * batch_size] for i in range(num_batches)]
Batched(x, batch_size, num_batches) ==
    [b \in 1..num_batches |-> SubSeq(x, (b - 1) * batch_size + 1, b * batch_size)]

\* the negative pool of a class id >= 0: t.cat of every other class's rows
OtherActs(all_activations, class_idx) ==
    Concat([j \in 1..Cardinality(DOMAIN all_activations \ {class_idx}) |->
              all_activations[SeqOfSet(DOMAIN all_activations \ {class_idx})[j]]])

NoOutput == [examples |-> <<>>, labels |-> <<>>, batched_acts |-> <<>>, batched_labels |-> <<>>]

Raise(error) == [status |-> error] @@ NoOutput

\* the slicing with the number of batches rounded up: the trailing examples
\* form a last, shorter batch
SliceIntoBatchesRoundedUp(examples, labels, batch_size) ==
    IF batch_size = 0 THEN Raise("ZeroDivisionError")
    ELSE LET num_batches == (Len(examples) + batch_size - 1) \div batch_size
             upto(b) == IF b * batch_size < Len(examples) THEN b * batch_size
                        ELSE Len(examples)
         IN  [status |-> "returned", examples |-> examples, labels |-> labels,
              batched_acts |-> [b \in 1..num_batches |->
                                  SubSeq(examples, (b - 1) * batch_size + 1, upto(b))],
              batched_labels |-> [b \in 1..num_batches |->
                                  SubSeq(labels, (b - 1) * batch_size + 1, upto(b))]]

\* lines 343-354 (and 298-307): slice the examples and labels into batches
SliceIntoBatches(examples, labels, batch_size) ==
    IF batch_size = 0 THEN Raise("ZeroDivisionError")
    ELSE LET num_batches == Len(examples) \div batch_size
         IN  [status |-> "returned", examples |-> examples, labels |-> labels,
              batched_acts |-> Batched(examples, batch_size, num_batches),
              batched_labels |-> Batched(labels, batch_size, num_batches)]

\* lines 326-354 with the positive label written to one row too few
CombineAndBatchLabelOffByOne(positive_acts, negative_acts, indices, shuffle_indices, batch_size) ==
    LET num_positive == Len(positive_acts)
        selected_negative_acts == Gather(negative_acts, indices)
        combined_acts == positive_acts \o selected_negative_acts
        combined_labels == [i \in 1..Len(combined_acts) |->
                              IF i < num_positive THEN POSITIVE_CLASS_LABEL
                              ELSE NEGATIVE_CLASS_LABEL]
    IN  IF Len(selected_negative_acts) # Len(positive_acts)
        THEN Raise("AssertionError")
        ELSE SliceIntoBatches(Gather(combined_acts, shuffle_indices),
                              Gather(combined_labels, shuffle_indices), batch_size)

\* lines 326-354, for the negative pool, the indices drawn at line 326 and
\* the permutation drawn at line 339
CombineAndBatch(positive_acts, negative_acts, indices, shuffle_indices, batch_size) ==
    LET num_positive == Len(positive_acts)
        selected_negative_acts == Gather(negative_acts, indices)
        combined_acts == positive_acts \o selected_negative_acts
        combined_labels == [i \in 1..Len(combined_acts) |->
                              IF i <= num_positive THEN POSITIVE_CLASS_LABEL
                              ELSE NEGATIVE_CLASS_LABEL]
    IN  IF Len(selected_negative_acts) # Len(positive_acts)
        THEN Raise("AssertionError")
        ELSE SliceIntoBatches(Gather(combined_acts, shuffle_indices),
                              Gather(combined_labels, shuffle_indices), batch_size)

\* the branch of prepare_probe_data taken: "single", "contrastive" or the
\* exception raised before a negative pool exists
Branch(all_activations, class_idx, single_class) ==
    IF class_idx \notin DOMAIN all_activations THEN "KeyError"
    ELSE IF single_class /\ class_idx >= 0 THEN "single"
    ELSE IF class_idx >= 0
         THEN IF DOMAIN all_activations = {class_idx} THEN "RuntimeError"
              ELSE "contrastive"
    ELSE IF class_idx \notin DOMAIN PAIRED_CLASS_KEYS THEN "ValueError"
    ELSE IF PAIRED_CLASS_KEYS[class_idx] \notin DOMAIN all_activations THEN "KeyError"
    ELSE "contrastive"

\* the negative pool of the contrastive branch
NegativeActs(all_activations, class_idx) ==
    IF class_idx >= 0 THEN OtherActs(all_activations, class_idx)
    ELSE all_activations[PAIRED_CLASS_KEYS[class_idx]]


(***************************************************************************)
(* train_probe and test_probe.                                             *)
(***************************************************************************)
\* largest number of batches in a list of input or label batches
MaxBatches == 2
\* largest number of epochs
MaxEpochs == 2

\* train_input_batches[:30], train_label_batches[:30]
TrainEvalPrefix == 30

\* what an element of a list of input batches is: a string, a tensor, or
\* something else (a list of strings)
Kinds == {"str", "Tensor", "list"}

\* the values passed as get_acts: a function, None, True; a flag is passed
\* as "True" or "False"
GetActsValues == {"callable", "None", "True"}
Flag(b) == IF b THEN "True" ELSE "False"
Truthy(v) == v \in {"callable", "True"}

Smaller(a, b) == IF a < b THEN a ELSE b

\* the accuracy of the probe with the given parameters over the first n
\* batch pairs of a data set
Accuracy(probe_params, data, n) ==
    [bound |-> TRUE, probe |-> probe_params, data |-> data, batches |-> n]

\* a local variable not assigned yet, and the value of a call that has not returned
Unbound == [bound |-> FALSE]
NotReturned == [returned |-> FALSE]

\* lines 372-375: how the type check ends
TypeCheck(a) ==
    IF a.n_train_inputs = 0 THEN "IndexError"
    ELSE IF a.train_kind = "str"
         THEN IF a.precomputed_acts = FALSE THEN "passed" ELSE "AssertionError"
    ELSE IF a.n_test_inputs = 0 THEN "IndexError"
    ELSE IF a.test_kind = "str"
         THEN IF a.precomputed_acts = FALSE THEN "passed" ELSE "AssertionError"
    ELSE IF a.train_kind = "Tensor" \/ a.test_kind = "Tensor"
         THEN IF a.precomputed_acts = TRUE THEN "passed" ELSE "AssertionError"
    ELSE "passed"

\* lines 384-392: how the forward pass of one training step ends
ForwardPass(a) ==
    IF a.precomputed_acts
    THEN IF a.train_kind = "Tensor" THEN "ok" ELSE "TypeError"
    ELSE IF a.get_acts = "callable" THEN "ok" ELSE "TypeError"

\* test_probe(input_batches, label_batches, probe, precomputed_acts, get_acts)
\* on n_inputs input batches of the kind and n_labels label batches
test_probe(kind, n_inputs, n_labels, probe_params, data, precomputed_acts, get_acts) ==
    IF precomputed_acts = "True" /\ get_acts # "None"
    THEN [status |-> "AssertionError"]
    ELSE IF Smaller(n_inputs, n_labels) = 0
    THEN \* t.cat(corrects) of an empty list
         [status |-> "RuntimeError"]
    ELSE IF ~Truthy(precomputed_acts)
    THEN [status |-> "NotImplementedError"]
    ELSE IF kind # "Tensor"
    THEN [status |-> "TypeError"]
    ELSE [status |-> "returned",
          accuracy |-> Accuracy(probe_params, data, Smaller(n_inputs, n_labels))]

\* the same call on the whole train lists, without the slices [:30]
EvalTrainWholeSet(a, probe_params) ==
    test_probe(a.train_kind, a.n_train_inputs, a.n_train_labels, probe_params, "train",
               a.get_acts, Flag(a.precomputed_acts))

\* the call of test_probe at lines 396-398: the fourth and fifth arguments
\* are get_acts and precomputed_acts, in that order
EvalTrainSubset(a, probe_params) ==
    test_probe(a.train_kind, Smaller(a.n_train_inputs, TrainEvalPrefix),
               Smaller(a.n_train_labels, TrainEvalPrefix), probe_params, "train",
               a.get_acts, Flag(a.precomputed_acts))

\* the call of test_probe at lines 402-404
EvalTest(a, probe_params) ==
    test_probe(a.test_kind, a.n_test_inputs, a.n_test_labels, probe_params, "test",
               a.get_acts, Flag(a.precomputed_acts))

(***************************************************************************)
(* eval_saes.                                                              *)
(***************************************************************************)
\* largest number of artifact paths
MaxArtifacts == 2
\* largest n_inputs
MaxInputs == 2
\* largest context_length, llm_batch_size and sae_batch_size
MaxSize == 2
\* the number of texts of the corpus; text i is i characters long
CorpusSize == 3

\* buffer_size = min(512, n_inputs)
BufferCap == 512

\* lines 40-45: the first n_inputs texts, each cut to context_length characters
InputStrings(n_inputs, context_length) ==
    [i \in 1..Smaller(n_inputs, CorpusSize) |->
        [text |-> i, chars |-> Smaller(i, context_length)]]

\* lines 33-36
Io(transcoder) == IF transcoder THEN "in_and_out" ELSE "out"

\* lines 67-76: the mapping evaluate returned for the artifact, with the
\* hyperparameters record attached
EvalResults(a, ae_path, inputs) ==
    [bound |-> TRUE,
     metrics |-> [artifact |-> ae_path, n_ctxs |-> Smaller(BufferCap, a.n_inputs),
                  ctx_len |-> a.context_length, io |-> Io(a.transcoder),
                  inputs |-> Len(inputs)],
     hyperparameters |-> [n_inputs |-> a.sae_batch_size,
                          context_length |-> a.context_length]]

\* a result file that json.dump did not finish
PartialFile == [bound |-> FALSE]

NoFiles == [k \in {} |-> PartialFile]

(***************************************************************************)
(* An entry point that is not running.                                     *)
(***************************************************************************)
DataIdle ==
    /\ entry = "none"
    /\ args = [train_set_size |-> 0, test_set_size |-> 0, include_paired_classes |-> FALSE]
    /\ dpc = "idle"
    /\ call = NoCall
    /\ train_bios = NoData
    /\ test_bios = NoData
    /\ stages = <<>>
    /\ raised = "none"

PrepareIdle ==
    /\ ppc = "idle"
    /\ pargs = [all_activations |-> NoData, class_idx |-> 0, batch_size |-> 0,
                single_class |-> FALSE]
    /\ pout = [status |-> "running"] @@ NoOutput

TrainIdle ==
    /\ tpc = "idle"
    /\ targs = [made |-> FALSE]
    /\ epoch = 0
    /\ batch_idx = 0
    /\ probe = 0
    /\ loss_bound = FALSE
    /\ train_accuracy = Unbound
    /\ test_accuracy = Unbound
    /\ tret = NotReturned
    /\ terror = "none"

EvalIdle ==
    /\ epc = "idle"
    /\ eargs = [made |-> FALSE]
    /\ input_strings = <<>>
    /\ ae_index = 0
    /\ loaded = <<>>
    /\ evaluated = <<>>
    /\ eval_results = Unbound
    /\ files = NoFiles
    /\ eret = NotReturned
    /\ eerror = "none"

(***************************************************************************)
(* The data pipeline: get_train_test_data, called directly or by           *)
(* train_probes.                                                           *)
(***************************************************************************)

\* the set sizes tried: the multiples of 4 (the divisor of lines 218-219) and
\* the sizes 7, 15, ... that the floor division rounds down
SetSizes == {s \in 0..MaxSetSize : s % 8 \in {0, 4, 7}}

\* the parameters get_train_test_data declares
GetTrainTestDataParams ==
    {"dataset", "train_set_size", "test_set_size", "include_paired_classes"}

\* the keyword arguments the caller passes beside the four positional ones
KeywordsPassed(caller) ==
    IF caller = "train_probes" THEN {"sort_by_length"} ELSE {}

InitData ==
    /\ entry \in {"get_train_test_data", "train_probes"}
    /\ args \in [train_set_size : SetSizes, test_set_size : SetSizes,
                 include_paired_classes : BOOLEAN]
    /\ dpc = "start"
    /\ call = NoCall
    /\ train_bios = NoData
    /\ test_bios = NoData
    /\ stages = <<>>
    /\ raised = "none"
    /\ PrepareIdle
    /\ TrainIdle
    /\ EvalIdle

\* the call of get_train_test_data binds its arguments; train_probes gets
\* here after seeding, loading the model and loading the dataset
CallGetTrainTestData ==
    /\ dpc = "start"
    /\ IF KeywordsPassed(entry) \subseteq GetTrainTestDataParams
       THEN /\ dpc' = "bound"
            /\ raised' = raised
       ELSE /\ dpc' = "failed"
            /\ raised' = "TypeError"
    /\ UNCHANGED <<entry, args, call, train_bios, test_bios, stages, prepVars, trainVars, evalVars>>

BalancerCall(df, min_samples_per_group, train) ==
    LET r == get_balanced_dataset(df, min_samples_per_group,
                                  args.include_paired_classes, SEED)
    IN  [made |-> TRUE, df |-> df, min_samples_per_group |-> min_samples_per_group,
         train |-> train, include_paired_classes |-> args.include_paired_classes,
         status |-> r.status, balanced_data |-> r.balanced_data]

\* train_bios = get_balanced_dataset(dataset, train_set_size // 4, train=True, ...)
BalanceTrain ==
    /\ dpc = "bound"
    /\ \E df \in DataFrames :
         LET c == BalancerCall(df, args.train_set_size \div 4, TRUE)
         IN  /\ call' = c
             /\ IF c.status = "returned"
                THEN /\ train_bios' = c.balanced_data
                     /\ dpc' = "train_balanced"
                     /\ raised' = raised
                ELSE /\ train_bios' = train_bios
                     /\ dpc' = "failed"
                     /\ raised' = c.status
    /\ stages' = IF entry = "train_probes" THEN Append(stages, "balancer") ELSE stages
    /\ UNCHANGED <<entry, args, test_bios, prepVars, trainVars, evalVars>>

\* test_bios = get_balanced_dataset(dataset, test_set_size // 4, train=False, ...)
BalanceTest ==
    /\ dpc = "train_balanced"
    /\ \E df \in DataFrames :
         LET c == BalancerCall(df, args.test_set_size \div 4, FALSE)
         IN  /\ call' = c
             /\ IF c.status = "returned"
                THEN /\ test_bios' = c.balanced_data
                     /\ dpc' = "test_balanced"
                     /\ raised' = raised
                ELSE /\ test_bios' = test_bios
                     /\ dpc' = "failed"
                     /\ raised' = c.status
    /\ UNCHANGED <<entry, args, train_bios, stages, prepVars, trainVars, evalVars>>

\* train_bios, test_bios = ensure_shared_keys(train_bios, test_bios); return
EnsureSharedKeys ==
    /\ dpc = "test_balanced"
    /\ LET r == ensure_shared_keys(train_bios, test_bios)
       IN  /\ train_bios' = r.train
           /\ test_bios' = r.test
    /\ dpc' = "reconciled"
    /\ UNCHANGED <<entry, args, call, stages, raised, prepVars, trainVars, evalVars>>

NextData ==
    \/ CallGetTrainTestData
    \/ BalanceTrain
    \/ BalanceTest
    \/ EnsureSharedKeys

SpecData == InitData /\ [][NextData]_vars

(***************************************************************************)
(* The call of prepare_probe_data.                                         *)
(***************************************************************************)
InitPrepare ==
    /\ ppc = "called"
    /\ pargs \in {[all_activations |-> AllActivations(sizes), class_idx |-> c,
                   batch_size |-> b, single_class |-> sc] :
                     sizes \in ActivationMappings, c \in ClassIds,
                     b \in 0..MaxBatch, sc \in BOOLEAN}
    /\ pout = [status |-> "running"] @@ NoOutput
    /\ DataIdle
    /\ TrainIdle
    /\ EvalIdle

\* prepare_probe_data(all_activations, class_idx, batch_size, device, single_class)
PrepareProbeData ==
    /\ ppc = "called"
    /\ ppc' = "done"
    /\ pargs' = pargs
    /\ UNCHANGED <<dataVars, trainVars, evalVars>>
    /\ LET all_activations == pargs.all_activations
           class_idx == pargs.class_idx
           branch == Branch(all_activations, class_idx, pargs.single_class)
       IN  CASE branch = "single" ->
                  LET positive_acts == all_activations[class_idx]
                  IN  pout' = SliceIntoBatches(
                                  positive_acts,
                                  [i \in 1..Len(positive_acts) |-> POSITIVE_CLASS_LABEL],
                                  pargs.batch_size)
             [] branch = "contrastive" ->
                  LET positive_acts == all_activations[class_idx]
                      negative_acts == NegativeActs(all_activations, class_idx)
                      num_positive == Len(positive_acts)
                  IN  \E indices \in SelectedIndices(Len(negative_acts), num_positive) :
                        \E shuffle_indices \in
                              RandPerms(1..(num_positive + Len(indices))) :
                            pout' = CombineAndBatch(positive_acts, negative_acts, indices,
                                                    shuffle_indices, pargs.batch_size)
             [] OTHER -> pout' = Raise(branch)

NextPrepare == PrepareProbeData

SpecPrepare == InitPrepare /\ [][NextPrepare]_vars

(***************************************************************************)
(* The call of train_probe.                                                *)
(***************************************************************************)
\* the lengths tried for train_input_batches and train_label_batches: the
\* short lists, and one list longer than the prefix of lines 396-398
TrainBatchCounts == (0..MaxBatches) \cup {TrainEvalPrefix + 1}

InitTrain ==
    /\ tpc = "called"
    /\ targs \in [train_kind : Kinds, test_kind : Kinds,
                  n_train_inputs : TrainBatchCounts, n_train_labels : TrainBatchCounts,
                  n_test_inputs : 0..MaxBatches, n_test_labels : 0..MaxBatches,
                  get_acts : GetActsValues, precomputed_acts : BOOLEAN,
                  epochs : 0..MaxEpochs]
    /\ epoch = 0
    /\ batch_idx = 0
    /\ probe = 0
    /\ loss_bound = FALSE
    /\ train_accuracy = Unbound
    /\ test_accuracy = Unbound
    /\ tret = NotReturned
    /\ terror = "none"
    /\ DataIdle
    /\ PrepareIdle
    /\ EvalIdle

TrainFails(error) ==
    /\ tpc' = "failed"
    /\ terror' = error

\* the number of batch pairs zip(train_input_batches, train_label_batches) yields
ZippedTrainBatches == Smaller(targs.n_train_inputs, targs.n_train_labels)

\* lines 372-379: the type check, then the probe, optimizer and criterion
CheckTypes ==
    /\ tpc = "called"
    /\ IF TypeCheck(targs) = "passed"
       THEN tpc' = "loop" /\ terror' = terror
       ELSE TrainFails(TypeCheck(targs))
    /\ UNCHANGED <<targs, epoch, batch_idx, probe, loss_bound, train_accuracy,
                   test_accuracy, tret, dataVars, prepVars, evalVars>>

\* line 381, and line 406 when the epochs are over
LoopHead ==
    /\ tpc = "loop"
    /\ IF epoch < targs.epochs
       THEN /\ tpc' = "train"
            /\ batch_idx' = 0
            /\ UNCHANGED <<tret, terror>>
       ELSE /\ batch_idx' = batch_idx
            /\ IF test_accuracy = Unbound
               THEN TrainFails("UnboundLocalError") /\ tret' = tret
               ELSE /\ tpc' = "done"
                    /\ tret' = [returned |-> TRUE, probe |-> probe,
                               test_accuracy |-> test_accuracy]
                    /\ terror' = terror
    /\ UNCHANGED <<targs, epoch, probe, loss_bound, train_accuracy, test_accuracy,
                   dataVars, prepVars, evalVars>>

\* lines 383-393: one batch pair of the train pass
TrainStep ==
    /\ tpc = "train"
    /\ batch_idx < ZippedTrainBatches
    /\ IF ForwardPass(targs) = "ok"
       THEN /\ probe' = probe + 1
            /\ loss_bound' = TRUE
            /\ batch_idx' = batch_idx + 1
            /\ UNCHANGED <<tpc, terror>>
       ELSE /\ TrainFails(ForwardPass(targs))
            /\ UNCHANGED <<probe, loss_bound, batch_idx>>
    /\ UNCHANGED <<targs, epoch, train_accuracy, test_accuracy, tret, dataVars, prepVars, evalVars>>

\* lines 394-400: the loss is printed and the accuracy on the train prefix taken
EvalTrainStep ==
    /\ tpc = "train"
    /\ batch_idx = ZippedTrainBatches
    /\ IF ~loss_bound
       THEN TrainFails("UnboundLocalError") /\ train_accuracy' = train_accuracy
       ELSE LET r == EvalTrainSubset(targs, probe)
            IN  IF r.status = "returned"
                THEN /\ train_accuracy' = r.accuracy
                     /\ tpc' = "eval_test"
                     /\ terror' = terror
                ELSE TrainFails(r.status) /\ train_accuracy' = train_accuracy
    /\ UNCHANGED <<targs, epoch, batch_idx, probe, loss_bound, test_accuracy, tret,
                   dataVars, prepVars, evalVars>>

\* lines 402-405: the accuracy on the full test set is taken
EvalTestStep ==
    /\ tpc = "eval_test"
    /\ LET r == EvalTest(targs, probe)
       IN  IF r.status = "returned"
           THEN /\ test_accuracy' = r.accuracy
                /\ epoch' = epoch + 1
                /\ tpc' = "loop"
                /\ terror' = terror
           ELSE TrainFails(r.status) /\ UNCHANGED <<test_accuracy, epoch>>
    /\ UNCHANGED <<targs, batch_idx, probe, loss_bound, train_accuracy, tret,
                   dataVars, prepVars, evalVars>>

NextTrain ==
    \/ CheckTypes
    \/ LoopHead
    \/ TrainStep
    \/ EvalTrainStep
    \/ EvalTestStep

SpecTrain == InitTrain /\ [][NextTrain]_vars

(***************************************************************************)
(* The call of eval_saes.                                                  *)
(***************************************************************************)
InitEval ==
    /\ epc = "called"
    /\ eargs \in [n_paths : 0..MaxArtifacts, n_inputs : 0..MaxInputs,
                  context_length : 1..MaxSize, llm_batch_size : 1..MaxSize,
                  sae_batch_size : 1..MaxSize, transcoder : BOOLEAN]
    /\ input_strings = <<>>
    /\ ae_index = 0
    /\ loaded = <<>>
    /\ evaluated = <<>>
    /\ eval_results = Unbound
    /\ files = NoFiles
    /\ eret = NotReturned
    /\ eerror = "none"
    /\ DataIdle
    /\ PrepareIdle
    /\ TrainIdle

\* the artifact paths taken from the end of the list
ae_path_from_last == eargs.n_paths - ae_index

\* ae_paths: the artifact paths 1..n_paths, in list order
ae_path == ae_index + 1

EvalFails(stage) ==
    /\ epc' = "failed"
    /\ eerror' = stage

\* lines 31-45: buffer size, io mode, corpus, input_strings
CollectInputs ==
    /\ epc = "called"
    /\ input_strings' = InputStrings(eargs.n_inputs, eargs.context_length)
    /\ epc' = "loop"
    /\ UNCHANGED <<eargs, ae_index, loaded, evaluated, eval_results, files, eret, eerror,
                   dataVars, prepVars, trainVars>>

\* line 47, and line 85 when the paths are exhausted
NextArtifact ==
    /\ epc = "loop"
    /\ IF ae_index < eargs.n_paths
       THEN epc' = "load" /\ UNCHANGED <<eret, eerror>>
       ELSE IF eval_results = Unbound
            THEN EvalFails("UnboundLocalError") /\ eret' = eret
            ELSE /\ epc' = "done"
                 /\ eret' = [returned |-> TRUE, eval_results |-> eval_results]
                 /\ eerror' = eerror
    /\ UNCHANGED <<eargs, input_strings, ae_index, loaded, evaluated, eval_results, files,
                   dataVars, prepVars, trainVars>>

\* lines 48-50: utils.load_dictionary, which may fail
LoadDictionary ==
    /\ epc = "load"
    /\ loaded' = Append(loaded, ae_path)
    /\ \/ epc' = "buffer" /\ eerror' = eerror
       \/ EvalFails("load")
    /\ UNCHANGED <<eargs, input_strings, ae_index, evaluated, eval_results, files, eret,
                   dataVars, prepVars, trainVars>>

\* lines 52-65: the ActivationBuffer over iter(input_strings), which may fail
BuildBuffer ==
    /\ epc = "buffer"
    /\ \/ epc' = "evaluate" /\ eerror' = eerror
       \/ EvalFails("buffer")
    /\ UNCHANGED <<eargs, input_strings, ae_index, loaded, evaluated, eval_results, files,
                   eret, dataVars, prepVars, trainVars>>

\* lines 67-78: evaluate, which may fail, then the hyperparameters record
Evaluate ==
    /\ epc = "evaluate"
    /\ evaluated' = Append(evaluated, ae_path)
    /\ \/ /\ eval_results' = EvalResults(eargs, ae_path, input_strings)
          /\ epc' = "write"
          /\ eerror' = eerror
       \/ EvalFails("evaluate") /\ eval_results' = eval_results
    /\ UNCHANGED <<eargs, input_strings, ae_index, loaded, files, eret,
                   dataVars, prepVars, trainVars>>

\* lines 80-82: the result file is opened and written; open may fail, and
\* json.dump may fail after the file was created
WriteResults ==
    /\ epc = "write"
    /\ \/ /\ files' = (ae_path :> eval_results) @@ files
          /\ ae_index' = ae_index + 1
          /\ epc' = "loop"
          /\ eerror' = eerror
       \/ EvalFails("open") /\ UNCHANGED <<files, ae_index>>
       \/ /\ EvalFails("write")
          /\ files' = (ae_path :> PartialFile) @@ files
          /\ ae_index' = ae_index
    /\ UNCHANGED <<eargs, input_strings, loaded, evaluated, eval_results, eret,
                   dataVars, prepVars, trainVars>>

NextEval ==
    \/ CollectInputs
    \/ NextArtifact
    \/ LoadDictionary
    \/ BuildBuffer
    \/ Evaluate
    \/ WriteResults

SpecEval == InitEval /\ [][NextEval]_vars

(***************************************************************************)
(* Claims about the data pipeline (checked under SpecData).                *)
(***************************************************************************)
WrongSizedGroup(c) ==
    \E key \in DOMAIN c.balanced_data :
        Len(c.balanced_data[key]) # 2 * c.min_samples_per_group

\* C1: every group of a mapping get_balanced_dataset returns (profession
\* groups and the paired groups -2..-5) has exactly 2 * min_samples_per_group
\* texts, and a call whose mapping holds a group of another size ends in an
\* AssertionError instead of returning.
C1_BalancedGroups ==
    call.made =>
        /\ call.status = "returned" => ~WrongSizedGroup(call)
        /\ WrongSizedGroup(call) => call.status = "AssertionError"

\* a test-split call with paired classes and a positive threshold returned
C1_Witness ==
    /\ call.made
    /\ call.status = "returned"
    /\ ~call.train
    /\ call.include_paired_classes
    /\ call.min_samples_per_group = 2
    /\ PairedGroupKeys \cup Professions \subseteq DOMAIN call.balanced_data

\* C2: the step in which get_train_test_data reconciles and returns leaves
\* both mappings with the same key set, which is the intersection of the key
\* sets of the two balancer results, and leaves the text list of every
\* retained key as it was.
C2_SharedKeys ==
    [][(dpc = "test_balanced" /\ dpc' = "reconciled") =>
          /\ DOMAIN train_bios' = DOMAIN test_bios'
          /\ DOMAIN train_bios' = DOMAIN train_bios \cap DOMAIN test_bios
          /\ \A k \in DOMAIN train_bios' :
                /\ train_bios'[k] = train_bios[k]
                /\ test_bios'[k] = test_bios[k]]_vars

\* get_train_test_data returned after dropping a test-only key and keeping
\* a shared one, whose train and test lists differ
C2_Witness ==
    /\ dpc = "reconciled"
    /\ DOMAIN train_bios # {}
    /\ DOMAIN call.balanced_data \ DOMAIN test_bios # {}
    /\ \A k \in DOMAIN train_bios : Len(train_bios[k]) # Len(test_bios[k])

\* C3 (as claimed): a call of train_probes carries the pipeline through,
\* balancer first: it does not end before the balancer has run.
C3_TrainProbesPipeline ==
    (entry = "train_probes" /\ dpc = "failed") =>
        /\ stages # <<>>
        /\ stages[1] = "balancer"

\* the smaller of the sizes of the gender groups of profession p
SmallerGenderGroup(df, p) == ValueCountsMin(df, p)

\* the rule of the loop: a profession of the split is left out of a returned
\* mapping exactly when the smaller of its gender-group sizes is below a
\* positive min_samples_per_group
ExclusionRule ==
    (call.made /\ call.status = "returned" /\ call.min_samples_per_group > 0) =>
        \A p \in Unique(call.df) :
            p \notin DOMAIN call.balanced_data
                <=> SmallerGenderGroup(call.df, p) < call.min_samples_per_group

\* C7 (as claimed): leaving professions out is silent: a call on a split with
\* professions, each of which is left out because the smaller of its
\* gender-group sizes is below min_samples_per_group, does not raise.
C7_SilentExclusion ==
    (/\ call.made
     /\ Unique(call.df) # {}
     /\ \A p \in Unique(call.df) :
           SmallerGenderGroup(call.df, p) < call.min_samples_per_group)
       => call.status = "returned"

(***************************************************************************)
(* Claims about prepare_probe_data (checked under SpecPrepare).            *)
(***************************************************************************)
Returned == ppc = "done" /\ pout.status = "returned"

\* P: the number of positive examples
NumPositive == Len(pargs.all_activations[pargs.class_idx])

\* the number of examples of the output batches that carry the label
CountInBatches(label) ==
    LET all == Concat(pout.batched_labels)
    IN  Cardinality({i \in 1..Len(all) : all[i] = label})

CountInExamples(label) ==
    Cardinality({i \in 1..Len(pout.labels) : pout.labels[i] = label})

AbsDiff(a, b) == IF a < b THEN b - a ELSE a - b

\* C4 (as claimed): in contrastive mode (single_class false) the output
\* batches taken together hold as many positive as negative examples.
C4_BalancedBatches ==
    (Returned /\ ~pargs.single_class) =>
        CountInBatches(POSITIVE_CLASS_LABEL) = CountInBatches(NEGATIVE_CLASS_LABEL)

\* C4 (amended): in contrastive mode the 2P examples that are shuffled and
\* sliced hold P positive and P negative ones, and the numbers of positive and
\* of negative examples in the output batches differ by at most
\* 2P mod batch_size: they are equal when batch_size divides 2P.
C4_BalancedBeforeSlicing ==
    (Returned /\ ~pargs.single_class) =>
        /\ CountInExamples(POSITIVE_CLASS_LABEL) = NumPositive
        /\ CountInExamples(NEGATIVE_CLASS_LABEL) = NumPositive
        /\ AbsDiff(CountInBatches(POSITIVE_CLASS_LABEL),
                   CountInBatches(NEGATIVE_CLASS_LABEL))
             <= (2 * NumPositive) % pargs.batch_size

\* a contrastive call returned batches with more negative than positive
\* examples, the remainder of the slicing having dropped a positive one
C4_Witness ==
    /\ Returned
    /\ ~pargs.single_class
    /\ NumPositive = 2
    /\ pargs.batch_size = 3
    /\ CountInBatches(POSITIVE_CLASS_LABEL) = 1
    /\ CountInBatches(NEGATIVE_CLASS_LABEL) = 2

\* the rows of the output batches labelled negative
NegativeRows ==
    LET rows == Concat(pout.batched_acts)
        labels == Concat(pout.batched_labels)
    IN  {rows[i] : i \in {j \in 1..Len(rows) : labels[j] = NEGATIVE_CLASS_LABEL}}

\* C8 (as claimed): a call with a negative class_id takes its negatives only
\* from the activations of the partner registered in PAIRED_CLASS_KEYS, and a
\* call with a negative class_id that has no registered partner ends in
\* ValueError and in no other error.
C8_PairedNegatives ==
    (ppc = "done" /\ pargs.class_idx < 0) =>
        /\ pout.status = "returned" =>
              \A row \in NegativeRows : row[1] = PAIRED_CLASS_KEYS[pargs.class_idx]
        /\ pargs.class_idx \notin DOMAIN PAIRED_CLASS_KEYS =>
              pout.status = "ValueError"

\* N as the claim has it: 2P in contrastive mode, P in single_class mode
ClaimedNumExamples ==
    IF pargs.single_class THEN NumPositive ELSE 2 * NumPositive

\* N as amended: P when single_class is set and class_id is not negative,
\* 2P otherwise
NumExamples ==
    IF pargs.single_class /\ pargs.class_idx >= 0 THEN NumPositive ELSE 2 * NumPositive

\* floor(n / batch_size) batches of activations and as many of labels, each of
\* exactly batch_size examples: the first floor(n / batch_size) * batch_size
\* examples in order, so that the n mod batch_size trailing ones are in no batch
SlicedWithRemainderDropped(n) ==
    LET num_batches == n \div pargs.batch_size
        used == num_batches * pargs.batch_size
        rows == Concat(pout.batched_acts)
    IN  /\ Len(pout.examples) = n
        /\ Len(pout.batched_acts) = num_batches
        /\ Len(pout.batched_labels) = num_batches
        /\ \A b \in 1..num_batches :
              /\ Len(pout.batched_acts[b]) = pargs.batch_size
              /\ Len(pout.batched_labels[b]) = pargs.batch_size
        /\ rows = SubSeq(pout.examples, 1, used)
        /\ Concat(pout.batched_labels) = SubSeq(pout.labels, 1, used)
        /\ \A i \in (used + 1)..n :
              \A j \in 1..Len(rows) : rows[j] # pout.examples[i]

\* C10 (as claimed): the call returns floor(N / batch_size) batches, N being
\* 2P in contrastive mode and P in single_class mode.
C10_BatchCount == Returned => SlicedWithRemainderDropped(ClaimedNumExamples)

\* C10 (amended): the call returns floor(N / batch_size) activation batches
\* and as many label batches, each of exactly batch_size examples, N being P
\* when single_class is set and class_id is not negative and 2P otherwise; the
\* N mod batch_size trailing examples appear in no batch.
C10_BatchCountByBranch == Returned => SlicedWithRemainderDropped(NumExamples)

\* a contrastive call returned one batch of 3 out of 4 examples
C10_Witness ==
    /\ Returned
    /\ ~pargs.single_class
    /\ NumPositive = 2
    /\ pargs.batch_size = 3
    /\ Len(pout.batched_acts) = 1
    /\ Len(pout.examples) = 4

(***************************************************************************)
(* Claims about train_probe (checked under SpecTrain).                     *)
(***************************************************************************)
TrainEnded == tpc \in {"done", "failed"}

\* train_probe was called with precomputed activation batches and
\* precomputed_acts=True: non-empty lists of tensors, as many label batches
\* as input batches, and at least one epoch
PrecomputedCall ==
    /\ targs.precomputed_acts
    /\ targs.train_kind = "Tensor" /\ targs.test_kind = "Tensor"
    /\ targs.n_train_inputs >= 1 /\ targs.n_train_labels = targs.n_train_inputs
    /\ targs.n_test_inputs >= 1 /\ targs.n_test_labels = targs.n_test_inputs
    /\ targs.epochs >= 1

\* C5 (as claimed): such a call returns, whatever is passed as get_acts, the
\* trained probe with its accuracy on the full test set taken after the last
\* epoch.
C5_ReturnsFinalTestAccuracy ==
    (tpc # "idle" /\ PrecomputedCall /\ TrainEnded) =>
        /\ tpc = "done"
        /\ tret = [returned |-> TRUE, probe |-> probe,
                   test_accuracy |-> Accuracy(probe, "test", targs.n_test_inputs)]
        /\ probe = targs.epochs * targs.n_train_inputs

\* the inputs are strings or tensors, in non-empty lists, and their kinds do
\* not match the flag or each other
TypeMismatch ==
    /\ targs.train_kind \in {"str", "Tensor"} /\ targs.test_kind \in {"str", "Tensor"}
    /\ targs.n_train_inputs >= 1 /\ targs.n_test_inputs >= 1
    /\ \/ targs.train_kind = "str" /\ targs.test_kind = "str" /\ targs.precomputed_acts
       \/ targs.train_kind = "Tensor" /\ targs.test_kind = "Tensor"
            /\ ~targs.precomputed_acts
       \/ targs.train_kind # targs.test_kind

\* C6 (as claimed): a call whose input batches do not match the
\* precomputed_acts flag, or whose train and test inputs are of mixed kinds,
\* ends in AssertionError at the type check, before any training step.
C6_TypeContract ==
    (tpc \notin {"idle", "called"} /\ TypeMismatch) =>
        /\ tpc = "failed"
        /\ terror = "AssertionError"
        /\ probe = 0

\* the number of (input batch, label batch) pairs the zip of the train lists
\* yields, and the number the accuracy on the train prefix is taken over
TrainPairs == IF targs.n_train_inputs < targs.n_train_labels
              THEN targs.n_train_inputs ELSE targs.n_train_labels
TrainPrefixPairs == IF TrainPairs < 30 THEN TrainPairs ELSE 30
TestPairs == IF targs.n_test_inputs < targs.n_test_labels
             THEN targs.n_test_inputs ELSE targs.n_test_labels

\* where the call stands, by the number of completed epochs, the gradient
\* steps taken (probe) and the accuracies held: in a train pass the steps of
\* the completed epochs and of the batch pairs 1..batch_idx have been taken;
\* at the test evaluation the pass of the epoch is complete and the train
\* accuracy is that of the probe after this pass over the train prefix;
\* between epochs and at the return both accuracies are those of the probe
\* after the last completed pass
StagePosition ==
    /\ tpc = "train" =>
          /\ epoch < targs.epochs
          /\ batch_idx <= TrainPairs
          /\ probe = epoch * TrainPairs + batch_idx
    /\ tpc = "eval_test" =>
          /\ epoch < targs.epochs
          /\ probe = (epoch + 1) * TrainPairs
          /\ train_accuracy = Accuracy(probe, "train", TrainPrefixPairs)
    /\ (tpc \in {"loop", "done"} /\ epoch > 0) =>
          /\ epoch <= targs.epochs
          /\ probe = epoch * TrainPairs
          /\ train_accuracy = Accuracy(probe, "train", TrainPrefixPairs)
          /\ test_accuracy = Accuracy(probe, "test", TestPairs)
    /\ tpc = "done" =>
          /\ epoch = targs.epochs
          /\ tret = [returned |-> TRUE, probe |-> probe, test_accuracy |-> test_accuracy]

\* what one step of the call may do: a gradient step is one step of a train
\* pass on the next batch pair; a train pass starts at the first pair, from
\* between epochs; the train evaluation follows a complete pass, the test
\* evaluation the train evaluation, and neither changes the probe; an epoch
\* is completed by the test evaluation; the return comes after the last epoch
StageOrder ==
    /\ probe' # probe =>
          /\ tpc = "train" /\ tpc' = "train"
          /\ probe' = probe + 1
          /\ batch_idx' = batch_idx + 1
          /\ batch_idx < TrainPairs
    /\ (tpc # "train" /\ tpc' = "train") =>
          tpc = "loop" /\ batch_idx' = 0 /\ epoch' = epoch /\ epoch < targs.epochs
    /\ train_accuracy' # train_accuracy =>
          tpc = "train" /\ batch_idx = TrainPairs /\ tpc' = "eval_test"
    /\ tpc' = "eval_test" => tpc \in {"train", "eval_test"}
    /\ test_accuracy' # test_accuracy =>
          tpc = "eval_test" /\ tpc' = "loop" /\ epoch' = epoch + 1
    /\ epoch' # epoch => test_accuracy' = Accuracy(probe, "test", TestPairs)
    /\ (tpc # "loop" /\ tpc' = "loop") => tpc \in {"called", "eval_test"}
    /\ (tpc # "done" /\ tpc' = "done") => tpc = "loop" /\ epoch = targs.epochs

\* C11: train_probe goes, epoch after epoch, through a train pass, then the
\* accuracy over the first 30 train batch pairs, then the accuracy over the
\* full test set, and only then to the next epoch or the return; a train pass
\* takes exactly min(number of train input batches, number of train label
\* batches) gradient steps, one per zipped pair in list order, and no
\* gradient step is taken during an evaluation.
C11_EpochStages == [][StageOrder /\ StagePosition']_vars

\* a call over more than 30 train batch pairs has returned after its second epoch
C11_Witness ==
    /\ tpc = "done"
    /\ targs.epochs = 2
    /\ TrainPairs > 30
    /\ probe = 2 * TrainPairs
    /\ train_accuracy.batches = 30

(***************************************************************************)
(* Claims about eval_saes (checked under SpecEval).                        *)
(***************************************************************************)
\* C9 (as claimed): every result file a call of eval_saes with n_inputs >= 1
\* has written carries a hyperparameters record whose n_inputs is the n_inputs
\* argument and whose context_length is the context_length argument.
C9_HyperparametersRecorded ==
    \A path \in DOMAIN files :
        (files[path].bound /\ eargs.n_inputs >= 1) =>
            files[path].hyperparameters =
                [n_inputs |-> eargs.n_inputs, context_length |-> eargs.context_length]

\* the artifact paths 1..n in list order
FirstPaths(n) == [i \in 1..n |-> i]

\* the call ended by a failure of load_dictionary, of the ActivationBuffer,
\* of evaluate, of open or of json.dump for the artifact ae_index + 1
FailedAtArtifact ==
    /\ epc = "failed"
    /\ eerror \in {"load", "buffer", "evaluate", "open", "write"}

\* the paths were taken in list order, each once: the failing artifact was
\* loaded, it was evaluated unless loading or buffering failed, every
\* artifact before it was loaded and evaluated, and none after it
TakenInListOrder ==
    /\ ae_index < eargs.n_paths
    /\ loaded = FirstPaths(ae_index + 1)
    /\ evaluated = IF eerror \in {"load", "buffer"}
                   THEN FirstPaths(ae_index) ELSE FirstPaths(ae_index + 1)

\* every artifact before the failing one has its complete result file
EarlierResultsWritten ==
    \A path \in 1..ae_index :
        /\ path \in DOMAIN files
        /\ files[path].bound
        /\ files[path].metrics.artifact = path

\* C12 (as claimed): eval_saes takes the artifact paths in list order, and
\* when loading, buffering, evaluating or writing fails for the k-th artifact
\* the call ends with that failure: the files on disk are the result files of
\* exactly the artifacts before the k-th, no later artifact is loaded or
\* evaluated, and nothing is retried or skipped.
C12_FailureAborts ==
    [][/\ epc # "failed"
       /\ FailedAtArtifact' =>
             (/\ TakenInListOrder'
              /\ EarlierResultsWritten'
              /\ DOMAIN files' = 1..ae_index')]_vars

\* C12 (amended): as above, except that a failure of json.dump leaves the
\* file it had opened for the k-th artifact, incomplete; complete result
\* files exist for exactly the artifacts before the k-th.
C12_FailureAbortsPartialFile ==
    [][/\ epc # "failed"
       /\ FailedAtArtifact' =>
             (/\ TakenInListOrder'
              /\ EarlierResultsWritten'
              /\ DOMAIN files' =
                    IF eerror' = "write" THEN 1..(ae_index' + 1) ELSE 1..ae_index'
              /\ eerror' = "write" => files'[ae_index' + 1] = PartialFile)]_vars

\* json.dump failed for the second artifact after the first was written
C12_Witness ==
    /\ epc = "failed"
    /\ eerror = "write"
    /\ ae_index = 1
    /\ loaded = <<1, 2>>
    /\ evaluated = <<1, 2>>
    /\ files[1].bound
    /\ files[2] = PartialFile

====
